---- MODULE Spec2Model ----
(***************************************************************************)
(* Subscription tracking and episode reconciliation of BGmi                *)
(* (bgmi/lib/controllers.py): the commands add, filter_, delete, mark,     *)
(* status_, cal and update acting on the Followed table, the Bangumi       *)
(* catalog and the download queue handed to download_episodes.             *)
(*                                                                         *)
(* A bangumi name is a sequence of characters (small naturals), so that    *)
(* the substring match of add is computed, not assumed.                    *)
(* Optional arguments are sequences: <<>> is None, <<v>> is the value v.   *)
(***************************************************************************)
EXTENDS Integers, Sequences, FiniteSets, TLC

VARIABLES
    followed,   \* the Followed table: a set of rows
    bangumi,    \* the Bangumi table: the names of the catalog
    clock,      \* time.time(), in seconds
    before,     \* the Followed table as it was when the last command was called
    last,       \* the last command: its name, arguments and ControllerResult tag
    recon,      \* update only: one record per subscription the loop compared
    enqueued,   \* update only: the batches handed to download_episodes
    call        \* the last command: the time it was called, and for update
                \* the subscriptions the loop skipped with continue

vars == <<followed, bangumi, clock, before, last, recon, enqueued, call>>

----------------------------------------------------------------------------
(* Bounds of the model *)

\* the lifecycle specification: largest episode number an episode source
\* reports or a caller passes, and the longest list of observed episodes
MaxEp == 1
MaxObs == 1
\* the same two bounds in the reconciliation specification
MaxEpRecon == 2
MaxObsRecon == 3
\* number of clock steps of one day and one second
MaxTicks == 1

----------------------------------------------------------------------------
(* Program constants *)

STATUS_DELETED == 0
STATUS_FOLLOWED == 1
STATUS_UPDATED == 2
FOLLOWED_STATUS == {STATUS_DELETED, STATUS_FOLLOWED, STATUS_UPDATED}

\* 60 * 60 * 24, the freshness window of the UPDATED status
DAY == 86400

----------------------------------------------------------------------------
(* Names and inputs *)

ShowA == <<1, 2>>
\* a fragment of ShowA's name, and a name no series has
Fragment == <<1>>
Unknown == <<4>>
\* a second series, for the cycles over several subscriptions
ShowB == <<3, 2>>

None == <<>>
Some(v) == <<v>>

Max(S) == CHOOSE x \in S : \A y \in S : y <= x

SeqsUpTo(S, n) == UNION {[1..k -> S] : k \in 0..n}

\* str.__contains__ / SQL LIKE %frag%
Contains(full, frag) ==
    \E i \in 0..(Len(full) - Len(frag)) :
        \A j \in 1..Len(frag) : full[i + j] = frag[j]

\* what website.get_maximum_episode can do: fail with a ConnectionError, or
\* return the observed episode numbers in source order
FetchError == [ok |-> FALSE, eps |-> <<>>]
Fetched(eps) == [ok |-> TRUE, eps |-> eps]
Outcomes(maxEp, maxLen) ==
    {FetchError} \cup {Fetched(s) : s \in SeqsUpTo(1..maxEp, maxLen)}

----------------------------------------------------------------------------
(* The Followed table *)

\* line 56; updated_time and the four filter columns are left at the
\* column's default
NewFollowed(name) ==
    [bangumi_name |-> name, status |-> STATUS_FOLLOWED, episode |-> 0,
     updated_time |-> 0,
     subtitle |-> None, include |-> None, exclude |-> None, regex |-> None]

RowsOf(f, name) == {r \in f : r.bangumi_name = name}

\* Followed.get raises NotFoundError exactly when Exists is false
Exists(f, name) == RowsOf(f, name) # {}
Get(f, name) == CHOOSE r \in RowsOf(f, name) : TRUE

\* obj.save(): write the object over the row with its primary key
Save(f, obj) == (f \ RowsOf(f, obj.bangumi_name)) \cup {obj}

\* session.add(obj) of a new object, committed at the end of the with block
Insert(f, obj) == f \cup {obj}

RECURSIVE SetToSeq(_)
SetToSeq(S) ==
    IF S = {} THEN <<>>
    ELSE LET x == CHOOSE x \in S : TRUE IN <<x>> \o SetToSeq(S \ {x})

\* Followed.get_all_followed(): the subscriptions that are not deleted
get_all_followed(f) == SetToSeq({r \in f : r.status # STATUS_DELETED})

----------------------------------------------------------------------------
(* The Bangumi table *)

\* Bangumi.get(Bangumi.name.contains(name))
Matches(b, name) == {n \in b : Contains(n, name)}
Resolves(b, name) == Cardinality(Matches(b, name)) = 1
Resolve(b, name) == CHOOSE n \in Matches(b, name) : TRUE

Result(op, name, arg, status) ==
    [op |-> op, name |-> name, arg |-> arg, status |-> status]

Call(now, skipped) == [now |-> now, skipped |-> skipped]

----------------------------------------------------------------------------
(* add, lines 31-78 *)

\* a variant that refuses every existing row, whatever its status
AlreadyFollowedAnyRow(f, bname) == Exists(f, bname)

\* line 59: the only subscription add refuses to touch
AlreadyFollowed(f, bname) ==
    Exists(f, bname) /\ Get(f, bname).status = STATUS_FOLLOWED

\* lines 51-66, the table the with block commits: a new row at episode 0,
\* or the existing row flipped to FOLLOWED
AddSession(f, bname) ==
    IF ~Exists(f, bname)
    THEN Insert(f, NewFollowed(bname))
    ELSE Save(f, [Get(f, bname) EXCEPT !.status = STATUS_FOLLOWED])

\* lines 68-72: the caller's episode, or the maximum observable one (0 if none)
AddEpisode(episode, fetched) ==
    IF episode = None
    THEN IF fetched.eps # <<>>
         THEN Max({fetched.eps[i] : i \in DOMAIN fetched.eps})
         ELSE 0
    ELSE episode[1]

\* site is what website.fetch stores when the catalog is empty (lines 38-39);
\* fetched is what website.get_maximum_episode does (line 69)
add(name, episode, fetched, site) ==
    LET b == IF bangumi = {} THEN site ELSE bangumi
    IN  /\ bangumi' = b
        /\ before' = followed
        /\ UNCHANGED clock
        /\ recon' = <<>>
        /\ enqueued' = <<>>
        /\ call' = Call(clock, <<>>)
        /\ IF ~Resolves(b, name)
           THEN /\ followed' = followed
                /\ last' = Result("add", name, episode, "error")
           ELSE LET bname == Resolve(b, name)
                    committed == AddSession(followed, bname)
                    obj == Get(committed, bname)
                IN  IF AlreadyFollowed(followed, bname)
                    THEN /\ followed' = followed
                         /\ last' = Result("add", bname, episode, "warning")
                    ELSE IF episode = None /\ ~fetched.ok
                    THEN \* the ConnectionError leaves add after the commit
                         /\ followed' = committed
                         /\ last' = Result("add", bname, episode, "raised")
                    ELSE /\ followed' =
                              Save(committed,
                                   [obj EXCEPT !.episode = AddEpisode(episode, fetched)])
                         /\ last' = Result("add", bname, episode, "success")

----------------------------------------------------------------------------
(* filter_, lines 81-135 *)

\* bangumi_obj.subtitle_group: the subtitle groups of a series of the catalog
subtitle_group(bname) == {1}

\* line 108: the requested groups the series has, in the order given
RECURSIVE Known(_, _)
Known(ids, group) ==
    IF ids = <<>> THEN <<>>
    ELSE (IF Head(ids) \in group THEN <<Head(ids)>> ELSE <<>>)
         \o Known(Tail(ids), group)

\* lines 105-117: an argument that is None leaves its column alone
SetFilters(obj, subtitle, include, exclude, regex) ==
    [obj EXCEPT
        !.subtitle = IF subtitle # None
                     THEN Some(Known(subtitle[1], subtitle_group(obj.bangumi_name)))
                     ELSE @,
        !.include = IF include # None THEN include ELSE @,
        !.exclude = IF exclude # None THEN exclude ELSE @,
        !.regex = IF regex # None THEN regex ELSE @]

\* subtitle, include and exclude are None or Some(list): the lists are the
\* comma-separated arguments after split and strip, subtitle after
\* Subtitle.get_subtitle_by_name has turned the names into ids
filter_(name, subtitle, include, exclude, regex) ==
    /\ before' = followed
    /\ UNCHANGED <<bangumi, clock>>
    /\ recon' = <<>>
    /\ enqueued' = <<>>
    /\ call' = Call(clock, <<>>)
    /\ IF ~Resolves(bangumi, name)
       THEN /\ followed' = followed
            /\ last' = Result("filter_", name, None, "error")
       ELSE LET bname == Resolve(bangumi, name)
            IN  IF ~Exists(followed, bname)
                THEN /\ followed' = followed
                     /\ last' = Result("filter_", bname, None, "error")
                ELSE /\ followed' =
                          Save(followed,
                               SetFilters(Get(followed, bname),
                                          subtitle, include, exclude, regex))
                     /\ last' = Result("filter_", bname,
                                       <<subtitle, include, exclude, regex>>,
                                       "success")

----------------------------------------------------------------------------
(* delete, lines 138-170 *)

\* Followed.delete_followed(batch): without batch the user is asked; every
\* active subscription is soft-deleted
delete_followed(f) ==
    {IF r.status # STATUS_DELETED THEN [r EXCEPT !.status = STATUS_DELETED] ELSE r :
        r \in f}

\* lines 154-163
DeleteOne(f, name) == Save(f, [Get(f, name) EXCEPT !.status = STATUS_DELETED])

\* answer is the user's reply to the confirmation asked when batch is false
delete(name, clear_all, batch, answer) ==
    /\ before' = followed
    /\ UNCHANGED <<bangumi, clock>>
    /\ recon' = <<>>
    /\ enqueued' = <<>>
    /\ call' = Call(clock, <<>>)
    /\ IF clear_all
       THEN IF batch \/ answer
            THEN /\ followed' = delete_followed(followed)
                 /\ last' = Result("delete", name, Some(clear_all), "warning")
            ELSE \* line 153: the result stays the empty dict
                 /\ followed' = followed
                 /\ last' = Result("delete", name, Some(clear_all), "none")
       ELSE IF name # <<>>
       THEN IF Exists(followed, name)
            THEN /\ followed' = DeleteOne(followed, name)
                 /\ last' = Result("delete", name, Some(clear_all), "warning")
            ELSE /\ followed' = followed
                 /\ last' = Result("delete", name, Some(clear_all), "error")
       ELSE /\ followed' = followed
            /\ last' = Result("delete", name, Some(clear_all), "warning")

----------------------------------------------------------------------------
(* cal, lines 173-218: refreshes the catalog when forced or when it is empty *)

cal(force_update, site) ==
    /\ bangumi' = IF force_update \/ bangumi = {} THEN site ELSE bangumi
    /\ before' = followed
    /\ last' = Result("cal", None, None, "none")
    /\ recon' = <<>>
    /\ enqueued' = <<>>
    /\ call' = Call(clock, <<>>)
    /\ UNCHANGED <<followed, clock>>

----------------------------------------------------------------------------
(* mark, lines 221-244 *)

\* a variant that never lowers the watermark
MarkEpisodeUp(f, name, episode) ==
    Save(f, [Get(f, name) EXCEPT !.episode = IF episode > @ THEN episode ELSE @])

\* lines 239-240
MarkEpisode(f, name, episode) == Save(f, [Get(f, name) EXCEPT !.episode = episode])

\* no script is installed: ScriptRunner().get_model(name) is None
mark(name, episode) ==
    /\ before' = followed
    /\ UNCHANGED <<bangumi, clock>>
    /\ recon' = <<>>
    /\ enqueued' = <<>>
    /\ call' = Call(clock, <<>>)
    /\ IF Exists(followed, name)
       THEN /\ followed' = MarkEpisode(followed, name, episode)
            /\ last' = Result("mark", name, Some(episode), "success")
       ELSE /\ followed' = followed
            /\ last' = Result("mark", name, Some(episode), "error")

----------------------------------------------------------------------------
(* status_, lines 415-434 *)

\* a variant without the 'not status' test
InvalidStatusUndeclared(status) ==
    \/ status = None
    \/ status[1] \notin FOLLOWED_STATUS

\* line 418; status is None or Some(code)
InvalidStatus(status) ==
    \/ status = None
    \/ status[1] \notin FOLLOWED_STATUS
    \/ status[1] = 0

\* lines 431-432
SetStatus(f, name, status) == Save(f, [Get(f, name) EXCEPT !.status = status])

status_(name, status) ==
    /\ before' = followed
    /\ UNCHANGED <<bangumi, clock>>
    /\ recon' = <<>>
    /\ enqueued' = <<>>
    /\ call' = Call(clock, <<>>)
    /\ IF InvalidStatus(status)
       THEN /\ followed' = followed
            /\ last' = Result("status_", name, status, "error")
       ELSE IF ~Exists(followed, name)
       THEN \* line 425: Followed.get raises NotFoundError, nothing catches it
            /\ followed' = followed
            /\ last' = Result("status_", name, status, "raised")
       ELSE /\ followed' = SetStatus(followed, name, status[1])
            /\ last' = Result("status_", name, status, "success")

----------------------------------------------------------------------------
(* update, lines 302-412 *)

\* a variant that also sweeps a subscription updated exactly a day ago
StaleAtDay(row, now) == row.updated_time # 0 /\ row.updated_time + DAY <= now

\* line 310
Stale(row, now) == row.updated_time # 0 /\ row.updated_time + DAY < now

\* lines 309-312: every subscription get_all_followed returns whose
\* updated_time is more than a day old is saved as FOLLOWED
Sweep(f, now) ==
    {IF r.status # STATUS_DELETED /\ Stale(r, now)
     THEN [r EXCEPT !.status = STATUS_FOLLOWED]
     ELSE r : r \in f}

\* lines 325-331: the rows Followed.get finds for the names, in their order
RECURSIVE Named(_, _)
Named(f, names) ==
    IF names = <<>> THEN <<>>
    ELSE (IF Exists(f, Head(names)) THEN <<Get(f, Head(names))>> ELSE <<>>)
         \o Named(f, Tail(names))

\* lines 322-331: updated_bangumi_obj. Every Followed.get returns an object
\* of its own, so each entry is a snapshot of its row as it was before the
\* loop, also when a name is given twice
Subscriptions(f, names) ==
    IF names = <<>> THEN get_all_followed(f) ELSE Named(f, names)

\* the Episode objects of a fetch; title tells the instances of a number apart
Episodes(name, eps) ==
    [i \in DOMAIN eps |-> [name |-> name, episode |-> eps[i], title |-> i]]

\* lines 378-381
Highest(data) ==
    IF data # <<>> THEN Max({data[i].episode : i \in DOMAIN data}) ELSE 0

\* itertools.groupby: the maximal runs of consecutive items with equal key
RECURSIVE Runs(_)
Runs(data) ==
    IF data = <<>> THEN <<>>
    ELSE LET rest == Runs(Tail(data))
         IN  IF rest # <<>> /\ Head(rest)[1].episode = Head(data).episode
             THEN <<(<<Head(data)>> \o Head(rest))>> \o Tail(rest)
             ELSE <<(<<Head(data)>>)>> \o rest

\* lines 391-393: the dict comprehension keeps, for each key, its last run
Groups(data) ==
    LET runs == Runs(data)
        keys == {runs[k][1].episode : k \in DOMAIN runs}
    IN  [n \in keys |->
            runs[Max({k \in DOMAIN runs : runs[k][1].episode = n})]]

\* a variant taking the first instance of the run, episodes.pop(0)
PopFirst(episodes) == episodes[1]

\* line 398: episodes.pop()
Pop(episodes) == episodes[Len(episodes)]

\* lines 395-398, for i in range(lo, hi + 1)
RECURSIVE Queue(_, _, _)
Queue(groups, lo, hi) ==
    IF lo > hi THEN <<>>
    ELSE (IF lo \in DOMAIN groups THEN <<Pop(groups[lo])>> ELSE <<>>)
         \o Queue(groups, lo + 1, hi)

\* line 383: the comparison is against the snapshot taken before the loop
Advances(subscribe, data) == Highest(data) > subscribe.episode

\* a variant that forgets the time of the transition
AdvanceNoTime(followed_obj, data, now) ==
    [followed_obj EXCEPT !.episode = Highest(data), !.status = STATUS_UPDATED]

\* lines 386-388, written to the row re-read inside the loop
Advance(followed_obj, data, now) ==
    [followed_obj EXCEPT !.episode = Highest(data),
                         !.status = STATUS_UPDATED,
                         !.updated_time = now]

\* lines 384, 391-398
DownloadQueue(subscribe, data) ==
    Queue(Groups(data), subscribe.episode + 1, Highest(data))

\* lines 401-411
Downloads(queue) ==
    [i \in DOMAIN queue |->
        [bangumi_name |-> queue[i].name, episode |-> queue[i].episode,
         title |-> queue[i].title]]

\* one pass of the loop body, lines 357-412; st is the table, the
\* comparisons made and the batches enqueued so far. A comparison is
\* recorded with the row of the table before (pre) and after (post) it.
Iteration(st, subscribe, out, c) ==
    LET name == subscribe.bangumi_name
        followed_obj == Get(st.followed, name)
        data == Episodes(name, out.eps)
        adv == Advances(subscribe, data)
        saved == IF adv
                 THEN Save(st.followed, Advance(followed_obj, data, c.now))
                 ELSE st.followed
        queue == IF adv THEN DownloadQueue(subscribe, data) ELSE <<>>
        skip(why) == [st EXCEPT !.skipped = Append(@, [name |-> name, why |-> why])]
    IN  IF name \notin c.bangumi THEN skip("Bangumi")              \* line 363
        ELSE IF ~Exists(st.followed, name) THEN skip("Followed")   \* line 368
        ELSE IF ~out.ok THEN skip("ConnectionError")               \* line 376
        ELSE [followed |-> saved,
              skipped |-> st.skipped,
              recon |-> Append(st.recon,
                          [name |-> name, snapshot |-> subscribe,
                           pre |-> followed_obj, observed |-> out.eps,
                           post |-> Get(saved, name), queue |-> queue,
                           download |-> c.download, ignore |-> c.ignore,
                           now |-> c.now]),
              enqueued |-> IF c.download
                           THEN Append(st.enqueued, Downloads(queue))
                           ELSE st.enqueued]

\* a variant in which a failed fetch ends the whole cycle
RECURSIVE LoopAbort(_, _, _, _, _)
LoopAbort(st, subs, outs, i, c) ==
    IF i > Len(subs) \/ ~outs[i].ok THEN st
    ELSE LoopAbort(Iteration(st, subs[i], outs[i], c), subs, outs, i + 1, c)

\* line 356: for subscribe in updated_bangumi_obj
RECURSIVE Loop(_, _, _, _, _)
Loop(st, subs, outs, i, c) ==
    IF i > Len(subs) THEN st
    ELSE Loop(Iteration(st, subs[i], outs[i], c), subs, outs, i + 1, c)

\* outs[i] is what website.get_maximum_episode does in pass i of the loop.
\* No script is installed, and the Download table of failed downloads
\* (lines 333-337) belongs to the downloader.
update(names, download, not_ignore, outs) ==
    LET now == clock
        swept == Sweep(followed, now)
        subs == Subscriptions(swept, names)
        c == [download |-> download, ignore |-> ~not_ignore, now |-> now,
              bangumi |-> bangumi]
    IN  \E end \in {Loop([followed |-> swept, recon |-> <<>>, enqueued |-> <<>>,
                           skipped |-> <<>>],
                          subs, outs, 1, c)} :
            /\ followed' = end.followed
            /\ call' = Call(now, end.skipped)
            /\ recon' = end.recon
            /\ enqueued' = end.enqueued
            /\ before' = followed
            /\ last' = Result("update", names, None, "none")
            /\ UNCHANGED <<bangumi, clock>>

----------------------------------------------------------------------------
(* Time passes between commands: a day, or a day and a second *)

Tick(d) ==
    /\ clock + d <= DAY + MaxTicks * (DAY + 1)
    /\ clock' = clock + d
    /\ UNCHANGED <<followed, bangumi, before, last, recon, enqueued, call>>

----------------------------------------------------------------------------
(* The lifecycle specification: one series, every command *)

Init ==
    /\ followed = {}
    /\ bangumi = {}
    /\ clock = DAY
    /\ before = {}
    /\ last = Result("none", None, None, "none")
    /\ recon = <<>>
    /\ enqueued = <<>>
    /\ call = Call(DAY, <<>>)

\* the arguments of add: without an episode the fetch decides, with one
\* no fetch is made
AddArgs(observations, episodes) ==
    {<<None, o>> : o \in observations}
        \cup {<<Some(e), FetchError>> : e \in episodes}

AddStep(names, observations, episodes, sites) ==
    \E name \in names, a \in AddArgs(observations, episodes), site \in sites :
        add(name, a[1], a[2], site)

\* a name, or clear_all with the user's answer to the confirmation
DeleteStep(names) ==
    \/ \E name \in names \cup {<<>>} : delete(name, FALSE, FALSE, FALSE)
    \/ \E batch \in BOOLEAN, answer \in BOOLEAN : delete(<<>>, TRUE, batch, answer)

CalStep(sites) ==
    \E force_update \in BOOLEAN, site \in sites : cal(force_update, site)

MarkStep(names, episodes) ==
    \E name \in names, episode \in episodes : mark(name, episode)

StatusArgs == {None} \cup {Some(s) : s \in FOLLOWED_STATUS \cup {99}}

StatusStep(names) ==
    \E name \in names, status \in StatusArgs : status_(name, status)

\* not_ignore only reaches website.get_maximum_episode (line 372), whose
\* result is drawn from observations whatever the flag is
UpdateStep(lists, observations, not_ignores) ==
    \E names \in lists, download \in BOOLEAN, not_ignore \in not_ignores :
        \E outs \in [1..Len(Subscriptions(Sweep(followed, clock), names)) ->
                        observations] :
            update(names, download, not_ignore, outs)

TickStep == \E d \in {DAY, DAY + 1} : Tick(d)

\* the values of the filter arguments: absent, or one list (one pattern)
SubtitleArgs == {None, Some(<<1, 2>>)}
IncludeArgs == {None, Some(<<7>>)}
ExcludeArgs == {None, Some(<<8>>)}
RegexArgs == {None, Some(9)}

FilterStep(names) ==
    \E name \in names, subtitle \in SubtitleArgs, include \in IncludeArgs,
       exclude \in ExcludeArgs, regex \in RegexArgs :
        filter_(name, subtitle, include, exclude, regex)

\* episode numbers a caller can pass to add and mark: any int
EpisodeArgs == (-1)..MaxEp
Observations == Outcomes(MaxEp, MaxObs)
NameArgs == {ShowA, Fragment, Unknown}
RowNames == {ShowA, Unknown}
NameLists == {<<>>, <<ShowA>>, <<Unknown>>}
Sites == {{ShowA}}

Next ==
    \/ AddStep(NameArgs, Observations, EpisodeArgs, Sites)
    \/ DeleteStep(RowNames)
    \/ CalStep(Sites)
    \/ MarkStep(RowNames, EpisodeArgs)
    \/ StatusStep(RowNames)
    \/ UpdateStep(NameLists, Observations, {FALSE})
    \/ TickStep

Spec == Init /\ [][Next]_vars

----------------------------------------------------------------------------------------------------------------------------------------------------
(* The reconciliation specification: one subscription, followed or marked   *)
(* at any episode, reconciled against every list of observed episodes      *)

EpisodeArgsRecon == (-1)..MaxEpRecon
ObservationsRecon == Outcomes(MaxEpRecon, MaxObsRecon)

NextRecon ==
    \/ AddStep({ShowA}, {}, EpisodeArgsRecon, Sites)
    \/ MarkStep({ShowA}, EpisodeArgsRecon)
    \/ UpdateStep({<<ShowA>>}, ObservationsRecon, {FALSE})

SpecRecon == Init /\ [][NextRecon]_vars

----------------------------------------------------------------------------
(* The repeated-name specification: update is given the same name twice     *)

NextTwice ==
    \/ AddStep({ShowA}, Observations, EpisodeArgs, Sites)
    \/ MarkStep({ShowA}, EpisodeArgs)
    \/ UpdateStep({<<ShowA, ShowA>>}, Observations, BOOLEAN)
    \/ TickStep

SpecTwice == Init /\ [][NextTwice]_vars

----------------------------------------------------------------------------
(* The cycle specification: two series, a catalog that can lose either of   *)
(* them, and refresh cycles over both subscriptions                         *)

CycleNames == {ShowA, ShowB}
CycleLists == {<<>>, <<ShowA, ShowB>>}
CycleSites == {{ShowA}, {ShowB}, {ShowA, ShowB}}

NextCycle ==
    \/ AddStep(CycleNames, {}, {0}, CycleSites)
    \/ CalStep(CycleSites)
    \/ UpdateStep(CycleLists, Observations, {FALSE})

SpecCycle == Init /\ [][NextCycle]_vars

----------------------------------------------------------------------------
(* The filter specification: one subscription with its filters edited,     *)
(* marked, given a status and reconciled                                    *)

NextFilter ==
    \/ AddStep({ShowA}, {}, {0}, Sites)
    \/ FilterStep({ShowA, Unknown})
    \/ MarkStep({ShowA}, EpisodeArgs)
    \/ StatusStep({ShowA})
    \/ UpdateStep({<<ShowA>>}, Observations, {FALSE})

SpecFilter == Init /\ [][NextFilter]_vars

----------------------------------------------------------------------------
(* Properties *)

Numbers(eps) == {eps[i] : i \in DOMAIN eps}
Records == {recon[i] : i \in DOMAIN recon}
StrictlyIncreasing(queue) ==
    \A i, j \in DOMAIN queue : i < j => queue[i].episode < queue[j].episode
\* the last command was add and resolved its name to a series of the catalog
Added == last.op = "add" /\ last.status # "error"
\* the last command was the single-series form of delete
DeletedOne == last.op = "delete" /\ last.arg = Some(FALSE) /\ last.name # <<>>

\* C1: after any sequence of add, delete, mark, status_ and update calls
\* every subscription's watermark (Followed.episode) is >= 0, also when add
\* or mark is given the episode number by the caller.
C1_WatermarkNonNegative == \A r \in followed : r.episode >= 0

\* C2: a subscription that is DELETED when update is called, with no names
\* or with names that include it, keeps its watermark, status and
\* updated_time, is not compared and has no download enqueued.
C2_DeletedExcludedFromRefresh ==
    last.op = "update" =>
        \A r \in before :
            r.status = STATUS_DELETED =>
                /\ r \in followed
                /\ \A x \in Records : x.name # r.bangumi_name
                /\ \A i \in DOMAIN enqueued : \A j \in DOMAIN enqueued[i] :
                       enqueued[i][j].bangumi_name # r.bangumi_name

\* C3: the download queue update builds for a subscription is strictly
\* increasing in episode number and holds no episode at or below the
\* watermark the subscription had in the table before that reconciliation.
C3_QueueAboveWatermark ==
    \A r \in Records :
        /\ StrictlyIncreasing(r.queue)
        /\ \A i \in DOMAIN r.queue : r.queue[i].episode > r.pre.episode

\* C4: when a reconciliation advances the watermark from current to highest,
\* the queue holds exactly one episode for each number of (current, highest]
\* that occurs in the observed list, in ascending order, and that episode is
\* the last instance of its number in the whole observed list; numbers that
\* were not observed contribute nothing.
C4_QueueIsLastInstances ==
    \A r \in Records :
        r.post.episode > r.pre.episode =>
            LET wanted == Numbers(r.observed)
                              \cap ((r.pre.episode + 1)..r.post.episode)
            IN  /\ r.post.episode =
                       (IF r.observed = <<>> THEN 0 ELSE Max(Numbers(r.observed)))
                /\ Len(r.queue) = Cardinality(wanted)
                /\ StrictlyIncreasing(r.queue)
                /\ \A i \in DOMAIN r.queue :
                       /\ r.queue[i].episode \in wanted
                       /\ r.queue[i].title =
                              Max({j \in DOMAIN r.observed :
                                      r.observed[j] = r.queue[i].episode})

\* C4 witness: the two instances of episode 1 are not adjacent, the later
\* one is queued, and episode 2 follows it.
C4_Witness ==
    \E r \in Records :
        /\ r.pre.episode = 0
        /\ r.observed = <<1, 2, 1>>
        /\ Len(r.queue) = 2
        /\ r.queue[1].title = 3
        /\ r.queue[2].title = 2

\* C5: whenever the highest observed episode number is greater than the
\* subscription's watermark, the reconciliation sets the watermark to it,
\* the status to UPDATED and updated_time to the time of the call, whether or
\* not downloading is enabled; that time is never ahead of the clock.
C5_AdvanceSetsUpdated ==
    \A r \in Records :
        (r.observed # <<>> /\ Max(Numbers(r.observed)) > r.pre.episode) =>
            /\ r.post = [r.pre EXCEPT !.episode = Max(Numbers(r.observed)),
                                      !.status = STATUS_UPDATED,
                                      !.updated_time = r.now]
            /\ r.now <= clock

\* C5 witness: a watermark advanced by an update called without download.
C5_Witness ==
    \E r \in Records :
        /\ ~r.download
        /\ r.observed # <<>>
        /\ Max(Numbers(r.observed)) > r.pre.episode
        /\ r.pre.status = STATUS_FOLLOWED
        /\ r.post.status = STATUS_UPDATED

\* C6: reconciling against an empty list of observed episodes changes
\* neither the status nor the watermark, for every watermark add and mark
\* can set, and builds an empty queue.
C6_EmptyObservedNoChange ==
    \A r \in Records :
        r.observed = <<>> =>
            /\ r.post.status = r.pre.status
            /\ r.post.episode = r.pre.episode
            /\ r.queue = <<>>

\* C7: when there are observed episodes and each has a number at or below
\* the watermark the subscription has in the table, the reconciliation
\* leaves status, watermark and updated_time unchanged and builds an empty
\* queue, with ignore_old true and false.
C7_NothingNewNoChange ==
    \A r \in Records :
        (r.observed # <<>> /\ \A n \in Numbers(r.observed) : n <= r.pre.episode) =>
            /\ r.post = r.pre
            /\ r.queue = <<>>

\* C8: add for a series whose subscription is FOLLOWED or UPDATED returns
\* the warning and leaves the table as it was.
C8_AddOnActiveIsNoOp ==
    (/\ Added
     /\ Exists(before, last.name)
     /\ Get(before, last.name).status \in {STATUS_FOLLOWED, STATUS_UPDATED}) =>
        /\ last.status = "warning"
        /\ followed = before

\* C9: add for a series of the catalog whose subscription was added and then
\* deleted (a row is DELETED only through delete, and exists only through
\* add) is not reported as already followed and leaves exactly one row for
\* the series, in status FOLLOWED.
C9_ReAddRestoresFollowed ==
    (/\ Added
     /\ Exists(before, last.name)
     /\ Get(before, last.name).status = STATUS_DELETED) =>
        /\ last.status # "warning"
        /\ Cardinality(RowsOf(followed, last.name)) = 1
        /\ Get(followed, last.name).status = STATUS_FOLLOWED

\* C9 witness: add has succeeded on a soft-deleted subscription.
C9_Witness ==
    /\ Added
    /\ last.status = "success"
    /\ Exists(before, last.name)
    /\ Get(before, last.name).status = STATUS_DELETED
    /\ Get(followed, last.name).status = STATUS_FOLLOWED

\* C10: the single-series delete reports an error and changes nothing when
\* the series has no subscription or its subscription is already DELETED,
\* and sets the status to DELETED when the subscription is active.
C10_DeleteReportsNotFound ==
    DeletedOne =>
        IF ~Exists(before, last.name)
              \/ Get(before, last.name).status = STATUS_DELETED
        THEN last.status = "error" /\ followed = before
        ELSE Get(followed, last.name).status = STATUS_DELETED

\* C11: every call of add either applies both its status change and its
\* watermark assignment (it returns success) or leaves the Followed table
\* exactly as it was, also when get_maximum_episode fails after the status
\* has been committed.
C11_AddAllOrNothing ==
    last.op = "add" => (last.status = "success" \/ followed = before)

\* the subscriptions a refresh cycle visits: one per given name that has a
\* row, or every row that is not DELETED when no name is given
Visited ==
    IF last.name = <<>>
    THEN Cardinality({r \in before : r.status # STATUS_DELETED})
    ELSE Cardinality({i \in DOMAIN last.name : Exists(before, last.name[i])})
Skipped == {call.skipped[i] : i \in DOMAIN call.skipped}

\* C12: in a refresh cycle over several series, a series whose fetch fails
\* with a ConnectionError, or that is missing from the catalog, keeps its
\* row as the staleness sweep left it, and every other subscription of the
\* cycle is still reconciled: each visited subscription is either skipped
\* for one of these reasons or compared, and a compared one whose highest
\* observed episode is above its watermark is advanced to it.
C12_FailureSkipsOneSeries ==
    last.op = "update" =>
        /\ Len(recon) + Len(call.skipped) = Visited
        /\ \A s \in Skipped :
               /\ s.why \in {"Bangumi", "ConnectionError"}
               /\ s.name \notin {r.name : r \in Records}
               /\ Get(followed, s.name) = Get(Sweep(before, call.now), s.name)
        /\ \A r \in Records :
               /\ r.name \in bangumi
               /\ Get(followed, r.name) = r.post
               /\ r.post.episode =
                      Max({r.pre.episode} \cup Numbers(r.observed) \cup
                              (IF r.observed = <<>> THEN {0} ELSE {}))

\* C12 witness: the fetch of the first series failed and the second series
\* of the same cycle was advanced.
C12_Witness ==
    /\ last.op = "update"
    /\ last.name = <<ShowA, ShowB>>
    /\ call.skipped = <<[name |-> ShowA, why |-> "ConnectionError"]>>
    /\ Len(recon) = 1
    /\ recon[1].name = ShowB
    /\ recon[1].post.episode > recon[1].pre.episode

\* the cycle advanced the watermark of the named subscription
Advanced(name) ==
    \E r \in Records : r.name = name /\ r.post.episode > r.pre.episode

Returned ==
    /\ last.op \in {"add", "filter_", "delete", "mark", "status_"}
    /\ last.status # "raised"

\* C14: every result add, filter_, delete, mark and status_ return carries
\* a status tag that is success, warning or error, also when delete with
\* clear_all is refused the confirmation and when delete has neither a name
\* nor clear_all.
C14_ResultCarriesStatus ==
    Returned => last.status \in {"success", "warning", "error"}

\* C15: status_ called with a declared, non-zero status code for a series
\* that has no row in the Followed table returns an error result, not the
\* NotFoundError of Followed.get, and leaves the table as it was.
C15_StatusOfUnknownIsError ==
    (/\ last.op = "status_"
     /\ last.arg # None
     /\ last.arg[1] \in FOLLOWED_STATUS \ {0}
     /\ ~Exists(before, last.name)) =>
        /\ last.status = "error"
        /\ followed = before

\* C16: mark on an existing subscription returns success and sets its
\* watermark to the given episode number, whether the watermark was higher,
\* equal or lower; its status, updated_time and four filter columns, and
\* every other row, are as before.
C16_MarkSetsWatermarkOnly ==
    (last.op = "mark" /\ Exists(before, last.name)) =>
        LET old == Get(before, last.name)
        IN  /\ last.status = "success"
            /\ followed = (before \ {old}) \cup
                              {[old EXCEPT !.episode = last.arg[1]]}

\* C16 witness: mark lowered the watermark of an UPDATED subscription that
\* has an updated_time and filters.
C16_Witness ==
    /\ last.op = "mark"
    /\ \E old \in before, new \in followed :
           /\ old.bangumi_name = last.name
           /\ new.bangumi_name = last.name
           /\ old.status = STATUS_UPDATED
           /\ old.updated_time # 0
           /\ old.include # None
           /\ old.subtitle = Some(<<1>>)
           /\ new.episode < old.episode
           /\ new.status = STATUS_UPDATED
           /\ new.include = old.include

\* C17: status_ called with no status, with a code that is not declared or
\* with the code zero returns an error and leaves the table as it was;
\* called with a declared non-zero code for a series that has a row it
\* returns success and sets that status, whatever the status was, and
\* nothing else.
C17_StatusValidatedThenSet ==
    last.op = "status_" =>
        IF \/ last.arg = None
           \/ last.arg[1] \notin {STATUS_DELETED, STATUS_FOLLOWED, STATUS_UPDATED}
           \/ last.arg[1] = 0
        THEN last.status = "error" /\ followed = before
        ELSE Exists(before, last.name) =>
                 LET old == Get(before, last.name)
                 IN  /\ last.status = "success"
                     /\ followed = (before \ {old}) \cup
                                       {[old EXCEPT !.status = last.arg[1]]}

\* C17 witness: status_ has moved a DELETED subscription to UPDATED.
C17_Witness ==
    /\ last.op = "status_"
    /\ last.status = "success"
    /\ last.arg = Some(STATUS_UPDATED)
    /\ Exists(before, last.name)
    /\ Get(before, last.name).status = STATUS_DELETED
    /\ Get(followed, last.name).status = STATUS_UPDATED

\* C18: updated_time is the time of the last transition into UPDATED: a
\* subscription that a command has moved into UPDATED, by reconciliation in
\* update or by status_, has the time of that command as its updated_time.
C18_UpdatedTimeIsTransitionTime ==
    \A new \in followed :
        (/\ new.status = STATUS_UPDATED
         /\ \A old \in before :
                old.bangumi_name = new.bangumi_name =>
                    old.status # STATUS_UPDATED) =>
            new.updated_time = call.now

\* C19: every episode a reconciliation puts in the download queue of a
\* subscription while advancing its watermark is handed to download_episodes
\* in the same update call, with download true and with download false.
C19_QueueIsHandedOver ==
    \A r \in Records :
        \A k \in DOMAIN r.queue :
            \E i \in DOMAIN enqueued : \E j \in DOMAIN enqueued[i] :
                /\ enqueued[i][j].bangumi_name = r.queue[k].name
                /\ enqueued[i][j].episode = r.queue[k].episode
                /\ enqueued[i][j].title = r.queue[k].title

\* C20: within one update call every subscription is compared against the
\* watermark its row has at that moment, and no (series, episode number)
\* pair is handed to download_episodes twice, also when a name is given
\* more than once.
C20_NoPairEnqueuedTwice ==
    /\ \A r \in Records : r.snapshot.episode = r.pre.episode
    /\ \A i1, i2 \in DOMAIN enqueued :
           \A j1 \in DOMAIN enqueued[i1], j2 \in DOMAIN enqueued[i2] :
               (/\ enqueued[i1][j1].bangumi_name = enqueued[i2][j2].bangumi_name
                /\ enqueued[i1][j1].episode = enqueued[i2][j2].episode) =>
                   (i1 = i2 /\ j1 = j2)

====
